---- MODULE Spec2Model ----
(***************************************************************************)
(* MyFunctionComponent (react-basics) and its bootstrap entry point.       *)
(*                                                                         *)
(* The component keeps one piece of state, farms (useState), written by    *)
(* two effects: fetchFarms (deps [], synchronous) and the url effect (deps *)
(* [url]) that starts the asynchronous fetchImportantData.  The model      *)
(* follows React's scheduling: the effects of a commit run to completion   *)
(* in one synchronous flush, the continuation after `await` runs later as  *)
(* its own step, and every setFarms goes through the single update queue.  *)
(*                                                                         *)
(* JavaScript values are tagged records, so that undefined, the empty      *)
(* string and false stay distinct values:                                  *)
(*   [type |-> "undefined"], [type |-> "string", val |-> s],               *)
(*   [type |-> "boolean", val |-> b].                                      *)
(*   [type |-> "object", val |-> <<...>>] for an IFarms[], a sequence of   *)
(*   [name, id] records.                                                   *)
(***************************************************************************)
EXTENDS Integers, Sequences, FiniteSets, TLC

VARIABLES
    azure,            \* what stands behind azureFunctionCall: "mock" | "remote"
    strictMode,       \* TRUE when <React.StrictMode> double-invokes effects (development build)
    props,            \* the props of the last render
    farms,            \* useState<IFarms[]>: the farms state
    pc,               \* the effect that is scheduled next: "fetchFarms" | "urlEffect" | "idle"
    mountEffectsLeft, \* effect passes of the mount flush that are still to run
    fetches,          \* every fetchImportantData call, in start order
    setFarmsCalls,    \* number of setFarms calls so far
    lastSet,          \* the call site of the last setFarms
    rerenders         \* number of re-renders after the mount

vars == <<azure, strictMode, props, farms, pc, mountEffectsLeft, fetches,
          setFarmsCalls, lastSet, rerenders>>

----------------------------------------------------------------------------
(* Bounds and input sets *)

MaxRerenders == 2

undefined == [type |-> "undefined"]

Str(s) == [type |-> "string", val |-> s]

Bool(b) == [type |-> "boolean", val |-> b]

Arr(list) == [type |-> "object", val |-> list]

Labels == {"This is the code quality repo", "farm1"}

Urls == {"www.google.com", "www.example.com"}

FooterTexts == {undefined, Str(""), Str("This is the footer"), Str("f")}

Shows == {undefined, Bool(TRUE), Bool(FALSE)}

\* interface Props
Props == [label : Labels, url : Urls, footerText : FooterTexts, show : Shows]

\* the props the entry point mounts the component with (show is omitted)
MainProps ==
    [label |-> "This is the code quality repo", url |-> "www.google.com",
     footerText |-> Str("This is the footer"), show |-> undefined]

----------------------------------------------------------------------------
(* The data *)

\* fetchFarms: const results = [{ name: 'farm1', id: 1 }]
MountBatch == Arr(<<[name |-> "farm1", id |-> 1]>>)

\* the value the mock azureFunctionCall resolves to
MockResult == Arr(<<[name |-> "farm2", id |-> 2]>>)

\* batches a deployed Azure Function may answer with, per url
RemoteBatch(url) ==
    IF url = "www.google.com"
    THEN Arr(<<[name |-> "farm3", id |-> 3], [name |-> "farm4", id |-> 4]>>)
    ELSE Arr(<<[name |-> "farm5", id |-> 5]>>)

\* azureFunctionCall: (url: string) => Promise<IFarms[] | undefined>.
\* The set of values the promise may resolve to.  The mock in the file
\* resolves to MockResult whatever the url; the call it stands for resolves
\* to any value of the declared type: undefined, or a list that depends on
\* the url.
AzureValues == {undefined, MockResult} \cup {RemoteBatch(u) : u \in Urls}

azureFunctionCall(backend, url) ==
    IF backend = "mock"
    THEN {MockResult}
    ELSE {undefined, MockResult, RemoteBatch(url)}

\* slip: the length test is left out
isNonEmptyString_TypeOnly(str) == str.type = "string"

\* isNonEmptyString: typeof str === 'string' && str.length > 0
isNonEmptyString(str) == str.type = "string" /\ Len(str.val) > 0

\* slip: the fallback is left out
NullishCoalesce_NoFallback(a, b) == a

\* a ?? b
NullishCoalesce(a, b) == IF a = undefined THEN b ELSE a

\* slip: the default written as props.show || true
ShowOf_OrTrue(p) == Bool(TRUE)

\* slip: no default, an omitted show is falsy
ShowOf_NoDefault(p) == IF p.show = undefined THEN Bool(FALSE) ELSE p.show

\* const { url, footerText, show = true } = props
ShowOf(p) == IF p.show = undefined THEN Bool(TRUE) ELSE p.show

\* getFooterText: isNonEmptyString(footerText) ? footerText : 'no footer'
getFooterText(p) ==
    IF isNonEmptyString(p.footerText) THEN p.footerText.val ELSE "no footer"

----------------------------------------------------------------------------
(* Rendering *)

null == [kind |-> "null"]

Fragment(children) == [kind |-> "fragment", children |-> children]

P(text) == [tag |-> "p", text |-> text]

Button(text) == [tag |-> "button", text |-> text]

\* farms.map((farm) => <p>{farm.name}</p>)
FarmParagraphs(fs) == [i \in 1..Len(fs.val) |-> P(fs.val[i].name)]

\* variant: the label is rendered above the list
MyFunctionComponent_WithLabel(p, fs) ==
    IF ShowOf(p).val
    THEN Fragment(<<P(p.label)>> \o FarmParagraphs(fs) \o <<Button("Click me")>>
                  \o <<P(getFooterText(p))>>)
    ELSE null

\* the return statement of MyFunctionComponent in react-basics (with the button)
MyFunctionComponent(p, fs) ==
    IF ShowOf(p).val
    THEN Fragment(FarmParagraphs(fs) \o <<Button("Click me")>> \o <<P(getFooterText(p))>>)
    ELSE null

\* the return statement of MyFunctionComponent in ReactBasics.tsx (no button)
MyFunctionComponentBasics(p, fs) ==
    IF ShowOf(p).val
    THEN Fragment(FarmParagraphs(fs) \o <<P(getFooterText(p))>>)
    ELSE null

----------------------------------------------------------------------------
(* State and hooks *)

\* slip: the effect is given no dependency array and runs after every render
DepsChanged_Always(prevDeps, nextDeps) == TRUE

\* useEffect dependency comparison (Object.is on every entry)
DepsChanged(prevDeps, nextDeps) ==
    \E i \in 1..Len(nextDeps) : prevDeps[i] # nextDeps[i]

\* the dependency array of the url effect: [url]
UrlEffectDeps(p) == <<p.url>>

\* slip: the new batch is appended to the list
setFarms_Concat(prev, value) == Arr(prev.val \o value.val)

\* the state after setFarms(value): the update queue replaces the list
setFarms(prev, value) == value

\* indices of the fetchImportantData calls still awaiting azureFunctionCall
Pending == {i \in 1..Len(fetches) : fetches[i].status = "pending"}

\* the continuation that the microtask queue (FIFO) runs next for the mock,
\* any pending call for a remote call
Resumable ==
    IF azure = "mock"
    THEN {i \in Pending : \A j \in Pending : i <= j}
    ELSE Pending

\* useState<IFarms[]>([]) and the first render; the effects have not run yet
Init ==
    /\ azure \in {"mock", "remote"}
    /\ strictMode \in BOOLEAN
    /\ props \in Props
    /\ farms = Arr(<<>>)
    /\ pc = "fetchFarms"
    /\ mountEffectsLeft = IF strictMode THEN 2 ELSE 1
    /\ fetches = <<>>
    /\ setFarmsCalls = 0
    /\ lastSet = [by |-> "useState", call |-> 0]
    /\ rerenders = 0

\* slip: fetchFarms builds its results and does not store them
FetchFarmsEffect_NoSet ==
    /\ pc = "fetchFarms"
    /\ pc' = "urlEffect"
    /\ UNCHANGED <<azure, strictMode, props, farms, setFarmsCalls, lastSet,
                   mountEffectsLeft, fetches, rerenders>>

\* useEffect(function fetchFarms() { setFarms(results) }, [])
FetchFarmsEffect ==
    /\ pc = "fetchFarms"
    /\ farms' = setFarms(farms, MountBatch)
    /\ setFarmsCalls' = setFarmsCalls + 1
    /\ lastSet' = [by |-> "fetchFarms", call |-> 0]
    /\ pc' = "urlEffect"
    /\ UNCHANGED <<azure, strictMode, props, mountEffectsLeft, fetches, rerenders>>

\* useEffect(() => { fetchImportantData(url) }, [url]): the call runs up to
\* its await, i.e. it starts azureFunctionCall(url)
UrlEffect ==
    /\ pc = "urlEffect"
    /\ fetches' = Append(fetches, [url |-> props.url, status |-> "pending",
                                   result |-> undefined])
    /\ IF mountEffectsLeft > 1
       THEN /\ pc' = "fetchFarms"
            /\ mountEffectsLeft' = mountEffectsLeft - 1
       ELSE /\ pc' = "idle"
            /\ mountEffectsLeft' = 0
    /\ UNCHANGED <<azure, strictMode, props, farms, setFarmsCalls, lastSet, rerenders>>

\* variant: the continuation may run between the two effect passes of the mount
ResumeFetchImportantData_Early(i, result) ==
    /\ i \in Resumable
    /\ result \in azureFunctionCall(azure, fetches[i].url)
    /\ farms' = setFarms(farms, NullishCoalesce(result, Arr(<<>>)))
    /\ fetches' = [fetches EXCEPT ![i] = [url |-> fetches[i].url, status |-> "done",
                                          result |-> result]]
    /\ setFarmsCalls' = setFarmsCalls + 1
    /\ lastSet' = [by |-> "fetchImportantData", call |-> i]
    /\ UNCHANGED <<azure, strictMode, props, pc, mountEffectsLeft, rerenders>>

\* fetchImportantData after its await:
\*   const importantData = (await azureFunctionCall(url)) ?? []
\*   setFarms(importantData)
\* A continuation runs only when the synchronous effect flush of the mount
\* has returned.
ResumeFetchImportantData(i, result) ==
    /\ mountEffectsLeft = 0
    /\ i \in Resumable
    /\ result \in azureFunctionCall(azure, fetches[i].url)
    /\ LET importantData == NullishCoalesce(result, Arr(<<>>))
       IN  farms' = setFarms(farms, importantData)
    /\ fetches' = [fetches EXCEPT ![i] = [url |-> fetches[i].url, status |-> "done",
                                          result |-> result]]
    /\ setFarmsCalls' = setFarmsCalls + 1
    /\ lastSet' = [by |-> "fetchImportantData", call |-> i]
    /\ UNCHANGED <<azure, strictMode, props, pc, mountEffectsLeft, rerenders>>

\* the parent renders the component again with new props; the url effect is
\* scheduled when its dependency changed
Rerender(newProps) ==
    /\ pc = "idle"
    /\ rerenders < MaxRerenders
    /\ props' = newProps
    /\ rerenders' = rerenders + 1
    /\ pc' = IF DepsChanged(UrlEffectDeps(props), UrlEffectDeps(newProps))
             THEN "urlEffect" ELSE "idle"
    /\ UNCHANGED <<azure, strictMode, farms, mountEffectsLeft, fetches,
                   setFarmsCalls, lastSet>>

Next ==
    \/ FetchFarmsEffect
    \/ UrlEffect
    \/ \E i \in 1..Len(fetches) : \E r \in AzureValues :
          ResumeFetchImportantData(i, r)
    \/ \E np \in Props : Rerender(np)

Spec == Init /\ [][Next]_vars

\* Scheduled effects are flushed, and the promise of the mock, an async
\* function without an await, is already resolved when it is returned, so the
\* microtask queue runs the continuation.
FairSpec == Spec /\ WF_vars(FetchFarmsEffect) /\ WF_vars(UrlEffect)
                 /\ WF_vars(azure = "mock" /\ \E i \in 1..Len(fetches) :
                               \E r \in AzureValues :
                                  ResumeFetchImportantData(i, r))

\* what the page shows
Output == MyFunctionComponent(props, farms)

OutputBasics == MyFunctionComponentBasics(props, farms)

----------------------------------------------------------------------------
(* Properties *)

\* number of fetchImportantData calls the mount starts
MountFetches == IF strictMode THEN 2 ELSE 1

\* no effect is scheduled and every started call has completed
Quiescent == pc = "idle" /\ Pending = {}

\* the mount has settled and no url change has started a further call
MountSettled == Quiescent /\ Len(fetches) = MountFetches

\* the component is shown
Shown == props.show # Bool(FALSE)

\* the list that a call that resolved to r stores
Stored(r) == IF r = undefined THEN Arr(<<>>) ELSE r

\* the last child of a rendered fragment
LastChild(out) == out.children[Len(out.children)]

\* C1: whenever the component is rendered with show = false the render
\* output is null, whatever the farms state, footerText and url are, in
\* every reachable state.
C1_HiddenRendersNull ==
    props.show = Bool(FALSE) => (Output = null /\ OutputBasics = null)

C1_Witness ==
    /\ props.show = Bool(FALSE)
    /\ lastSet.by = "fetchImportantData"
    /\ Len(farms.val) = 2
    /\ rerenders > 0
    /\ Output = null

\* C2: the footer of a shown component is footerText verbatim when
\* footerText is a non-empty string and 'no footer' when footerText is
\* undefined or the empty string; isNonEmptyString holds exactly of the
\* strings of length > 0.
C2_FooterText ==
    LET ft == props.footerText
        expected == IF ft \in {undefined, Str("")} THEN "no footer" ELSE ft.val
    IN  /\ isNonEmptyString(ft) <=> ft \notin {undefined, Str("")}
        /\ getFooterText(props) = expected
        /\ Shown => /\ LastChild(Output) = P(expected)
                    /\ LastChild(OutputBasics) = P(expected)

C2_Witness ==
    /\ props.footerText = Str("")
    /\ Shown
    /\ rerenders > 0
    /\ LastChild(Output) = P("no footer")

\* the calls started since the url prop last changed
LatestUrlFetches ==
    {i \in 1..Len(fetches) : \A j \in i..Len(fetches) : fetches[j].url = props.url}

C4_AssignedOnce ==
    /\ setFarmsCalls = 0 => farms = Arr(<<>>)
    /\ MountSettled => setFarmsCalls = 1

\* C4 amended: farms is the empty list at the first render; the mount (with
\* no later url change) assigns the farms state once by fetchFarms and once
\* by the completion of fetchImportantData in every effect pass: twice, and
\* four times when StrictMode runs the effects twice.
C4_AssignedPerEffect ==
    /\ setFarmsCalls = 0 => farms = Arr(<<>>)
    /\ MountSettled => setFarmsCalls = 2 * MountFetches

C4_Witness ==
    /\ MountSettled
    /\ strictMode
    /\ setFarmsCalls = 4
    /\ rerenders > 0

\* C5: a re-render whose url differs from the previous render's url
\* schedules the url effect, which starts exactly one azureFunctionCall with
\* the new url, and the completion of a call assigns the farms state; a
\* re-render with an unchanged url starts no call and leaves the farms
\* state unchanged.  Calls are started by nothing else.
C5_UrlChangeStartsOneFetch ==
    [][ /\ (rerenders' # rerenders /\ props'.url # props.url) =>
              /\ pc' = "urlEffect"
              /\ UNCHANGED <<fetches, farms, setFarmsCalls>>
        /\ (rerenders' # rerenders /\ props'.url = props.url) =>
              /\ pc' = "idle"
              /\ UNCHANGED <<fetches, farms, setFarmsCalls>>
        /\ (pc = "urlEffect" /\ pc' # pc) =>
              /\ fetches' = Append(fetches, [url |-> props.url, status |-> "pending",
                                             result |-> undefined])
              /\ UNCHANGED <<farms, props>>
        /\ Len(fetches') # Len(fetches) => (pc = "urlEffect" /\ pc' # pc)
        /\ \A i \in 1..Len(fetches) :
              (Len(fetches') = Len(fetches) /\ fetches'[i] # fetches[i]) =>
                 /\ fetches[i].status = "pending" /\ fetches'[i].status = "done"
                 /\ farms' = Stored(fetches'[i].result)
                 /\ setFarmsCalls' = setFarmsCalls + 1
      ]_vars

C5_Witness ==
    /\ rerenders > 0
    /\ Len(fetches) = MountFetches + 1
    /\ fetches[Len(fetches)].url = props.url
    /\ fetches[1].url # props.url
    /\ lastSet = [by |-> "fetchImportantData", call |-> Len(fetches)]
    /\ farms = RemoteBatch(props.url)

\* C6: when azureFunctionCall resolves to undefined, fetchImportantData sets
\* the farms state to the empty list; the farms state is a list, never
\* undefined, in every reachable state.
C6_AbsentDataIsEmptyList ==
    /\ farms # undefined
    /\ farms.type = "object"
    /\ (lastSet.by = "fetchImportantData" /\ fetches[lastSet.call].result = undefined)
          => farms = Arr(<<>>)

C6_Witness ==
    /\ lastSet.by = "fetchImportantData"
    /\ fetches[lastSet.call].status = "done"
    /\ fetches[lastSet.call].result = undefined
    /\ setFarmsCalls >= 2
    /\ farms = Arr(<<>>)

\* C7: in every reachable state the farms state is exactly the value of the
\* last setFarms call: the empty initial list, the mount effect's batch, or
\* the complete result of a single call (empty when that result was
\* absent); never a concatenation or a part of batches.
C7_ReplacedWholesale ==
    /\ lastSet.by = "useState" => farms = Arr(<<>>)
    /\ lastSet.by = "fetchFarms" => farms = MountBatch
    /\ lastSet.by = "fetchImportantData" =>
          /\ fetches[lastSet.call].status = "done"
          /\ farms = Stored(fetches[lastSet.call].result)
    /\ farms \in {Arr(<<>>), MountBatch} \cup {Stored(r) : r \in AzureValues}

C7_Witness ==
    /\ setFarmsCalls >= 3
    /\ Cardinality({i \in 1..Len(fetches) : fetches[i].status = "done"
                                             /\ fetches[i].result # undefined}) >= 2
    /\ Len(farms.val) = 2

\* C8: with the show prop omitted the component renders what it renders
\* with show = true: one paragraph per farm of the farms state, in list
\* order, then the footer last; never null.
C8_ShowDefaultsToTrue ==
    props.show = undefined =>
       LET shownProps == [props EXCEPT !.show = Bool(TRUE)]
       IN  /\ Output # null /\ OutputBasics # null
           /\ Output = MyFunctionComponent(shownProps, farms)
           /\ OutputBasics = MyFunctionComponentBasics(shownProps, farms)
           /\ \A i \in 1..Len(farms.val) :
                 /\ Output.children[i] = P(farms.val[i].name)
                 /\ OutputBasics.children[i] = P(farms.val[i].name)
           /\ LastChild(Output) = P(getFooterText(props))
           /\ LastChild(OutputBasics) = P(getFooterText(props))
           /\ Len(OutputBasics.children) = Len(farms.val) + 1

C8_Witness ==
    /\ props = MainProps
    /\ Len(farms.val) = 2
    /\ Output # null

\* the texts of the children of a rendered fragment
Texts(out) == {out.children[i].text : i \in 1..Len(out.children)}

\* C9 as stated: whenever the component is shown its render output contains
\* the text of the label prop.
C9_LabelRendered ==
    Shown => (props.label \in Texts(Output) /\ props.label \in Texts(OutputBasics))

\* C9 amended: whenever the component is shown its render output is the
\* farm-name paragraphs in list order, then (in react-basics) the 'Click me'
\* button, then the footer paragraph, and nothing else; the label prop is
\* not rendered, the output is the same for every label.
C9_LabelNotRendered ==
    Shown =>
       /\ Len(OutputBasics.children) = Len(farms.val) + 1
       /\ Len(Output.children) = Len(farms.val) + 2
       /\ \A i \in 1..Len(farms.val) :
             /\ Output.children[i] = P(farms.val[i].name)
             /\ OutputBasics.children[i] = P(farms.val[i].name)
       /\ Output.children[Len(farms.val) + 1] = Button("Click me")
       /\ LastChild(Output) = P(getFooterText(props))
       /\ LastChild(OutputBasics) = P(getFooterText(props))
       /\ \A l \in Labels :
             /\ MyFunctionComponent([props EXCEPT !.label = l], farms) = Output
             /\ MyFunctionComponentBasics([props EXCEPT !.label = l], farms) = OutputBasics

C9_Witness ==
    /\ Shown
    /\ props.label = "This is the code quality repo"
    /\ Len(farms.val) = 2
    /\ props.label \notin Texts(Output)

\* C10: the assignment of the mount effect fetchFarms never follows the
\* assignment of a completed fetchImportantData, also when StrictMode runs
\* the effects twice; once the mount has settled the farms state is a fetch
\* result, and with the mock and no further prop change the farms state
\* eventually equals [farm2] and stays equal to it.
C10_FetchResultLast ==
    /\ [][lastSet.by = "fetchImportantData" => lastSet'.by = "fetchImportantData"]_vars
    /\ [](MountSettled => /\ lastSet.by = "fetchImportantData"
                          /\ farms = Stored(fetches[lastSet.call].result))
    /\ (azure = "mock" => (<>(rerenders > 0) \/ <>[](farms = MockResult)))

C10_Witness ==
    /\ strictMode
    /\ azure = "mock"
    /\ MountSettled
    /\ rerenders = 0
    /\ setFarmsCalls = 4
    /\ farms = MockResult
====
